---- MODULE Spec2Model ----
(***************************************************************************)
(* Oslo cargo flight tracker (src/script.js): the two feed parsers, the    *)
(* cargo classifier, the time/status formatter, the renderer and the       *)
(* asynchronous loadFlights pipeline with overlapping invocations.         *)
(*                                                                         *)
(* Strings are sequences of string pieces.  Text that the code inspects    *)
(* character by character (carrier codes, airline names, keywords) is      *)
(* written one character per piece; fixed messages are one piece.          *)
(* Timestamp strings are records: the empty string, an ISO timestamp with  *)
(* a wall-clock hour and a UTC offset, or text Date cannot parse.          *)
(***************************************************************************)
EXTENDS Integers, Sequences, FiniteSets, TLC

VARIABLES
    \* ---- the page and the loadFlights invocations
    tableBody,      \* rows of #flightsTable tbody
    pc,             \* per invocation: where the async function stands
    flightRes,      \* per invocation: the flight fetch ("pending", "rejected", "ok", "notok")
    airlinesRes,    \* per invocation: the airline-name fetch
    flightsXml,     \* per invocation: body text of the flight response, once read
    airlinesXml,    \* per invocation: body text of the airline response, once read
    out,            \* per invocation: the rows its completion wrote (history)
    writes,         \* per invocation: completions that replaced the view (history)
    lastDone,       \* the invocation that completed last, 0 if none (history)
    \* ---- the transformation applied to one pair of documents
    phase,          \* "docs" | "done" | "status" | "described"
    feedDoc,        \* flight elements of the flight document
    namesDoc,       \* airlineName elements of the directory document
    airlinesMap,    \* parseAirlineNames(namesDoc)
    allFlights,     \* parseFlights(feedDoc)
    cargoFlights,   \* allFlights.filter(isCargoFlight), then sorted in place
    statusArg,      \* <<code, time>> handed to getStatusDescription
    desc            \* its result

vars == <<tableBody, pc, flightRes, airlinesRes, flightsXml, airlinesXml, out,
          writes, lastDone, phase, feedDoc, namesDoc, airlinesMap, allFlights,
          cargoFlights, statusArg, desc>>

pageVars == <<tableBody, pc, flightRes, airlinesRes, flightsXml, airlinesXml,
              out, writes, lastDone>>

pureVars == <<phase, feedDoc, namesDoc, airlinesMap, allFlights, cargoFlights,
              statusArg, desc>>

----------------------------------------------------------------------------
(* Bounds *)

MaxInv == 2        \* loadFlights invocations (window load, then refresh clicks)
MaxFlights == 3    \* flight elements in an enumerated flight document
MaxNames == 2      \* airlineName elements in an enumerated directory document

----------------------------------------------------------------------------
(* Strings *)

LowerChars == <<"a","b","c","d","e","f","g","h","i","j","k","l","m",
                "n","o","p","q","r","s","t","u","v","w","x","y","z">>
UpperChars == <<"A","B","C","D","E","F","G","H","I","J","K","L","M",
                "N","O","P","Q","R","S","T","U","V","W","X","Y","Z">>
DigitChars == <<"0","1","2","3","4","5","6","7","8","9">>

EmptyString == << >>

\* null (getAttribute of a missing attribute) and undefined (a missing key)
Null == <<"<null>">>
Undefined == <<"<undefined>">>

\* JavaScript truthiness of a string-or-null value
Truthy(v) == v # Null /\ v # Undefined /\ v # EmptyString

toUpperChar(c) ==
    IF \E k \in DOMAIN LowerChars : LowerChars[k] = c
    THEN UpperChars[CHOOSE k \in DOMAIN LowerChars : LowerChars[k] = c]
    ELSE c

toLowerChar(c) ==
    IF \E k \in DOMAIN UpperChars : UpperChars[k] = c
    THEN LowerChars[CHOOSE k \in DOMAIN UpperChars : UpperChars[k] = c]
    ELSE c

\* String.prototype.toUpperCase / toLowerCase
toUpperCase(s) == [i \in DOMAIN s |-> toUpperChar(s[i])]
toLowerCase(s) == [i \in DOMAIN s |-> toLowerChar(s[i])]

RECURSIVE trimStart(_)
trimStart(s) ==
    IF s # << >> /\ Head(s) = " " THEN trimStart(Tail(s)) ELSE s

RECURSIVE trimEnd(_)
trimEnd(s) ==
    IF s # << >> /\ s[Len(s)] = " " THEN trimEnd(SubSeq(s, 1, Len(s) - 1)) ELSE s

\* String.prototype.trim
trim(s) == trimEnd(trimStart(s))

\* String.prototype.includes: scan the start positions left to right
RECURSIVE includesFrom(_, _, _)
includesFrom(s, kw, start) ==
    IF start + Len(kw) - 1 > Len(s) THEN FALSE
    ELSE IF SubSeq(s, start, start + Len(kw) - 1) = kw THEN TRUE
    ELSE includesFrom(s, kw, start + 1)

includes(s, kw) == includesFrom(s, kw, 1)

----------------------------------------------------------------------------
(* Static configuration *)

CARGO_CODES ==
    << <<"U","P","S">>, <<"5","X">>, <<"B","C","S">>, <<"E","S">>,
       <<"Q","Y">>, <<"D","0">>, <<"A","P","F">>, <<"H","P">>,
       <<"Q","A","F">>, <<"Q","7">>, <<"Q","R">> >>

CARGO_KEYWORDS ==
    << <<"c","a","r","g","o">>, <<"d","h","l">>, <<"u","p","s">>,
       <<"a","m","a","p","o","l","a">>, <<"q","a","t","a","r">>,
       <<"f","r","e","i","g","h","t">>, <<"p","o","s","t","a","l">> >>

----------------------------------------------------------------------------
(* JavaScript objects used as maps *)

\* A property name every plain object inherits from Object.prototype, and the
\* text of the function found there.
ObjectPrototypeKeys == { <<"constructor">> }
InheritedFunction == <<"function Object() { [native code] }">>

\* obj[key] for a plain object literal: own property, inherited one, undefined
Lookup(obj, key) ==
    IF key \in DOMAIN obj THEN obj[key]
    ELSE IF key \in ObjectPrototypeKeys THEN InheritedFunction
    ELSE Undefined

\* a || b
OrElse(a, b) == IF Truthy(a) THEN a ELSE b

\* obj[key] = value
Store(obj, key, value) ==
    [k \in DOMAIN obj \cup {key} |-> IF k = key THEN value ELSE obj[k]]

EmptyObject == [k \in {} |-> EmptyString]

----------------------------------------------------------------------------
(* Timestamp strings and Date *)

EmptyTime == [kind |-> "empty", wall |-> 0, off |-> 0]
NullTime == [kind |-> "null", wall |-> 0, off |-> 0]
JunkTime == [kind |-> "junk", wall |-> 0, off |-> 0]
\* "2024-06-14T<wall>:00:00+<off>:00"
Iso(w, o) == [kind |-> "iso", wall |-> w, off |-> o]

TruthyTime(t) == t.kind \notin {"empty", "null"}

\* new Date(t) is an Invalid Date (its number value is NaN)
IsNaN(t) == t.kind # "iso"

\* new Date(t).getTime(), in hours of 14 June UTC
DateValue(t) == t.wall - t.off

\* Europe/Oslo in June: UTC+2
OsloOffset == 2

TwoDigits(n) == <<DigitChars[(n \div 10) + 1], DigitChars[(n % 10) + 1]>>

RangeError == <<"<RangeError>">>
RangeErrorMessage == <<"Invalid time value">>

\* formatToParts of an Invalid Date throws RangeError
formatLocalTime(isoTime) ==
    IF ~TruthyTime(isoTime) THEN EmptyString
    ELSE IF IsNaN(isoTime) THEN RangeError
    ELSE <<"14 Jun ">> \o TwoDigits((DateValue(isoTime) + OsloOffset) % 24) \o <<":00">>

----------------------------------------------------------------------------
(* Status text *)

statusMap ==
    [c \in { <<"A">>, <<"C">>, <<"D">>, <<"E">>, <<"N">> } |->
        CASE c = <<"A">> -> <<"Arrived">>
          [] c = <<"C">> -> <<"Cancelled">>
          [] c = <<"D">> -> <<"Departed">>
          [] c = <<"E">> -> <<"New time">>
          [] c = <<"N">> -> <<"New info">>]

\* faulty variant of getStatusDescription: the template is used whenever the code is E
getStatusDescriptionTemplate(code, time) ==
    IF ~Truthy(code) THEN EmptyString
    ELSE IF code = <<"E">>
         THEN IF formatLocalTime(time) = RangeError THEN RangeError
              ELSE <<"New time ">> \o formatLocalTime(time)
         ELSE OrElse(Lookup(statusMap, code), code)

getStatusDescription(code, time) ==
    IF ~Truthy(code) THEN EmptyString
    ELSE IF code = <<"E">> /\ TruthyTime(time)
         THEN IF formatLocalTime(time) = RangeError THEN RangeError
              ELSE <<"New time ">> \o formatLocalTime(time)
         ELSE OrElse(Lookup(statusMap, code), code)

----------------------------------------------------------------------------
(* Parsers.  A document is the sequence of its elements; a missing child      *)
(* element or attribute is Null (NullTime for a timestamp).                   *)

\* faulty variant of nameKey: the code is stored as written
nameKeyAsWritten(code) == code

\* the key an entry is stored under: code.toUpperCase()
nameKey(code) == toUpperCase(code)

RECURSIVE parseNamesFrom(_, _, _)
parseNamesFrom(elems, i, map) ==
    IF i > Len(elems) THEN map
    ELSE LET code == elems[i].code
             name == elems[i].name
         IN parseNamesFrom(elems, i + 1,
                IF Truthy(code) /\ Truthy(name)
                THEN Store(map, nameKey(code), name)
                ELSE map)

parseAirlineNames(elems) == parseNamesFrom(elems, 1, EmptyObject)

\* getText: el ? el.textContent.trim() : ""
getText(child) == IF child = Null THEN EmptyString ELSE trim(child)
getTimeText(child) == IF child.kind = "null" THEN EmptyTime ELSE child

parseFlight(f) ==
    [airline      |-> toUpperCase(getText(f.airline)),
     flightId     |-> getText(f.flight_id),
     scheduleTime |-> getTimeText(f.schedule_time),
     arrDep       |-> getText(f.arr_dep),
     otherAirport |-> getText(f.airport),
     statusCode   |-> IF f.status.present THEN f.status.code ELSE Null,
     statusTime   |-> IF f.status.present THEN f.status.time ELSE NullTime]

parseFlights(elems) == [i \in DOMAIN elems |-> parseFlight(elems[i])]

----------------------------------------------------------------------------
(* Cargo classifier *)

\* faulty variant of isCargoFlight: the name is matched without lowercasing it
isCargoFlightCaseSensitive(flight, map) ==
    LET code == flight.airline IN
    IF \E k \in DOMAIN CARGO_CODES : CARGO_CODES[k] = code THEN TRUE
    ELSE LET name == OrElse(Lookup(map, code), EmptyString)
         IN \E k \in DOMAIN CARGO_KEYWORDS : includes(name, CARGO_KEYWORDS[k])

isCargoFlight(flight, map) ==
    LET code == flight.airline IN
    IF \E k \in DOMAIN CARGO_CODES : CARGO_CODES[k] = code THEN TRUE
    ELSE LET name == toLowerCase(OrElse(Lookup(map, code), EmptyString))
         IN \E k \in DOMAIN CARGO_KEYWORDS : includes(name, CARGO_KEYWORDS[k])

\* Array.prototype.filter
RECURSIVE filterCargo(_, _)
filterCargo(flights, map) ==
    IF flights = << >> THEN << >>
    ELSE IF isCargoFlight(Head(flights), map)
         THEN <<Head(flights)>> \o filterCargo(Tail(flights), map)
         ELSE filterCargo(Tail(flights), map)

----------------------------------------------------------------------------
(* Sorting *)

\* faulty variant of compareFlights: the wall-clock text is compared, the UTC offset ignored
compareFlightsWallClock(a, b) ==
    IF IsNaN(a.scheduleTime) \/ IsNaN(b.scheduleTime) THEN 0
    ELSE a.scheduleTime.wall - b.scheduleTime.wall

\* (a, b) => new Date(a.scheduleTime) - new Date(b.scheduleTime); sort reads a
\* NaN result as +0
compareFlights(a, b) ==
    IF IsNaN(a.scheduleTime) \/ IsNaN(b.scheduleTime) THEN 0
    ELSE DateValue(a.scheduleTime) - DateValue(b.scheduleTime)

\* ECMAScript's "consistent comparator" for the values of the list
ConsistentComparator(list) ==
    \A i, j, k \in DOMAIN list :
        LET a == list[i]
            b == list[j]
            c == list[k]
        IN /\ (compareFlights(a, b) = 0 /\ compareFlights(b, c) = 0
                  => compareFlights(a, c) = 0)
           /\ (compareFlights(a, b) < 0 /\ compareFlights(b, c) = 0
                  => compareFlights(a, c) < 0)
           /\ (compareFlights(a, b) = 0 /\ compareFlights(b, c) < 0
                  => compareFlights(a, c) < 0)
           /\ (compareFlights(a, b) < 0 /\ compareFlights(b, c) < 0
                  => compareFlights(a, c) < 0)

RECURSIVE insertSorted(_, _)
insertSorted(s, x) ==
    IF s = << >> THEN <<x>>
    ELSE IF compareFlights(s[Len(s)], x) <= 0 THEN Append(s, x)
    ELSE Append(insertSorted(SubSeq(s, 1, Len(s) - 1), x), s[Len(s)])

RECURSIVE stableSortFrom(_, _, _)
stableSortFrom(list, i, acc) ==
    IF i > Len(list) THEN acc
    ELSE stableSortFrom(list, i + 1, insertSorted(acc, list[i]))

stableSort(list) == stableSortFrom(list, 1, << >>)

Reorderings(list) ==
    { [i \in DOMAIN list |-> list[p[i]]] :
        p \in { q \in [DOMAIN list -> DOMAIN list] :
                  \A i, j \in DOMAIN list : q[i] = q[j] => i = j } }

\* Array.prototype.sort: stable for a consistent comparator, otherwise the
\* order is implementation-defined
sortOutcomes(list) ==
    IF ConsistentComparator(list) THEN { stableSort(list) }
    ELSE Reorderings(list)

----------------------------------------------------------------------------
(* Rows of the table body: a row is the sequence of its cells *)

Cell(span, text) == [colSpan |-> span, text |-> text]

LoadingRow == << Cell(6, <<"Loading flights...">>) >>
PlaceholderRow == << Cell(6, <<"No cargo flights found in the selected timeframe.">>) >>
ErrorRow(message) == << Cell(6, <<"Error fetching flight data: ">> \o message) >>

flightRow(flight, map) ==
    << Cell(1, formatLocalTime(flight.scheduleTime)),
       Cell(1, OrElse(Lookup(map, flight.airline), flight.airline)),
       Cell(1, flight.flightId),
       Cell(1, IF flight.arrDep = <<"A">> THEN <<"Arrival">> ELSE <<"Departure">>),
       Cell(1, flight.otherAirport),
       Cell(1, getStatusDescription(flight.statusCode, flight.statusTime)) >>

\* building the row of this flight throws
flightRowThrows(flight) ==
    \/ formatLocalTime(flight.scheduleTime) = RangeError
    \/ getStatusDescription(flight.statusCode, flight.statusTime) = RangeError

\* renderFlights throws part-way through the forEach
renderThrows(flights) == \E i \in DOMAIN flights : flightRowThrows(flights[i])

\* tableBody.innerHTML = ""
clearRows(body) == << >>

\* faulty variant of renderFlights: the rows are appended to what the body holds
renderFlightsAppend(body, flights, map) ==
    IF Len(flights) = 0 THEN Append(body, PlaceholderRow)
    ELSE body \o [i \in DOMAIN flights |-> flightRow(flights[i], map)]

\* faulty variant of renderFlights: no placeholder row for an empty list
renderFlightsNoPlaceholder(body, flights, map) ==
    clearRows(body) \o [i \in DOMAIN flights |-> flightRow(flights[i], map)]

\* the table body renderFlights leaves when it returns normally
renderFlights(body, flights, map) ==
    IF Len(flights) = 0 THEN Append(clearRows(body), PlaceholderRow)
    ELSE clearRows(body) \o [i \in DOMAIN flights |-> flightRow(flights[i], map)]

\* faulty variant of showLoading: the body is not cleared first
showLoadingAppend(body) == Append(body, LoadingRow)

\* the head of loadFlights: clear the body, append the loading row
showLoading(body) == Append(clearRows(body), LoadingRow)

\* faulty variant of showError: the body is not cleared first
showErrorAppend(body, message) == Append(body, ErrorRow(message))

\* the catch block of loadFlights: clear the body, append the error row
showError(body, message) == Append(clearRows(body), ErrorRow(message))

----------------------------------------------------------------------------
(* Sample documents *)

QrRaw == <<"q", "r", " ">>
DyRaw == <<"D", "Y">>
T08Z == Iso(8, 0)
T09Z == Iso(9, 0)
T10P2 == Iso(10, 2)

NoStatus == [present |-> FALSE, code |-> Null, time |-> NullTime]
Status(code, time) == [present |-> TRUE, code |-> code, time |-> time]

FlightIdOf(i) == <<"F", DigitChars[i + 1]>>

FlightElem(airline, time, status) ==
    [airline |-> airline, flight_id |-> <<"F", "0">>, schedule_time |-> time,
     arr_dep |-> <<"A">>, airport |-> <<"D", "O", "H">>, status |-> status]

\* the flight elements of a document, numbered in document order
Numbered(elems) ==
    [i \in DOMAIN elems |-> [elems[i] EXCEPT !.flight_id = FlightIdOf(i)]]

NameElem(code, name) == [code |-> code, name |-> name]

DhlAir == <<"D", "H", "L", " ", "A", "i", "r">>
Norwegian == <<"N", "o", "r", "w", "e", "g", "i", "a", "n">>

FlightElems ==
    { FlightElem(QrRaw, T09Z, NoStatus), FlightElem(QrRaw, T08Z, NoStatus),
      FlightElem(DyRaw, T10P2, NoStatus), FlightElem(Null, T09Z, NoStatus),
      FlightElem(DyRaw, NullTime, NoStatus) }

NameElems ==
    { NameElem(<<"d", "y">>, DhlAir), NameElem(<<"D", "Y">>, Norwegian),
      NameElem(<<"D", "Y">>, Null), NameElem(Null, DhlAir) }

SeqsUpTo(S, n) == UNION { [1..k -> S] : k \in 0..n }

StatusCodes ==
    { Null, EmptyString, <<"A">>, <<"C">>, <<"D">>, <<"E">>, <<"N">>,
      <<"X">>, <<"e">>, <<"constructor">> }
StatusTimes == { NullTime, EmptyTime, T08Z, T09Z, T10P2, JunkTime }

\* A response body: whether it is well-formed XML, and the elements of
\* interest it holds (for a body that is not well-formed: those before the
\* first error).
Body(wellFormed, elems) == [read |-> TRUE, wellFormed |-> wellFormed, elems |-> elems]
NotRead == [read |-> FALSE, wellFormed |-> FALSE, elems |-> << >>]

ErrorPage == Body(FALSE, << >>)

MixedFeed ==
    Body(TRUE, Numbered(<< FlightElem(QrRaw, T09Z, Status(<<"E">>, T10P2)),
                           FlightElem(DyRaw, T08Z, NoStatus),
                           FlightElem(QrRaw, T08Z, Status(<<"E">>, NullTime)) >>))
PassengerFeed ==
    Body(TRUE, Numbered(<< FlightElem(DyRaw, T08Z, Status(<<"A">>, NullTime)) >>))
GappyFeed ==
    Body(TRUE, Numbered(<< FlightElem(QrRaw, T09Z, NoStatus),
                           FlightElem(QrRaw, NullTime, NoStatus),
                           FlightElem(QrRaw, T08Z, NoStatus) >>))
JunkTimeFeed ==
    Body(TRUE, Numbered(<< FlightElem(QrRaw, T08Z, NoStatus),
                           FlightElem(QrRaw, JunkTime, NoStatus) >>))
JunkStatusFeed ==
    Body(TRUE, Numbered(<< FlightElem(QrRaw, T08Z, Status(<<"E">>, JunkTime)) >>))
TruncatedFeed ==
    Body(FALSE, Numbered(<< FlightElem(QrRaw, T08Z, NoStatus) >>))

DhlDirectory == Body(TRUE, << NameElem(<<"d", "y">>, DhlAir) >>)
NorwegianDirectory == Body(TRUE, << NameElem(<<"D", "Y">>, Norwegian) >>)

\* the documents a single load is tried on
FlightBodies ==
    { Body(TRUE, << >>), MixedFeed, PassengerFeed, GappyFeed, JunkTimeFeed,
      JunkStatusFeed, TruncatedFeed, Body(FALSE, << >>) }
AirlineBodies ==
    { DhlDirectory, NorwegianDirectory, Body(TRUE, << >>), Body(FALSE, << >>) }

\* the documents overlapping loads are tried on
SomeFlightBodies == { MixedFeed, JunkTimeFeed }
SomeAirlineBodies == { NorwegianDirectory }

\* DOMParser.parseFromString(text, "application/xml") never throws.  For text
\* that is not well-formed the document holds a parsererror element and,
\* depending on the engine, either nothing else or what was parsed before the
\* error.
parseFromString(body, keepsPartial) ==
    IF body.wellFormed \/ keepsPartial THEN body.elems ELSE << >>

\* lines 177-180 of loadFlights on two response bodies: the directory and the
\* filtered, sorted flights it can hand to renderFlights
transform(flightsBody, airlinesBody, keepsPartial) ==
    LET map == parseAirlineNames(parseFromString(airlinesBody, keepsPartial))
        all == parseFlights(parseFromString(flightsBody, keepsPartial))
    IN { [airlinesMap |-> map, cargoFlights |-> sorted] :
            sorted \in sortOutcomes(filterCargo(all, map)) }

\* transform, tabulated over the sample bodies
transformed ==
    [f \in FlightBodies \cup {ErrorPage}, a \in AirlineBodies \cup {ErrorPage},
     k \in BOOLEAN |-> transform(f, a, k)]

----------------------------------------------------------------------------
(* The page: overlapping loadFlights invocations *)

Invocations == 1..MaxInv
Terminal == {"Rendered", "Failed"}

FetchFailedMessage == <<"Failed to fetch">>
BodyFailedMessage == <<"Failed to read the response body">>

PageInit ==
    /\ tableBody = << >>
    /\ pc = [i \in Invocations |-> "Idle"]
    /\ flightRes = [i \in Invocations |-> "pending"]
    /\ airlinesRes = [i \in Invocations |-> "pending"]
    /\ flightsXml = [i \in Invocations |-> NotRead]
    /\ airlinesXml = [i \in Invocations |-> NotRead]
    /\ out = [i \in Invocations |-> << >>]
    /\ writes = [i \in Invocations |-> 0]
    /\ lastDone = 0

PureIdle ==
    /\ feedDoc = << >>
    /\ namesDoc = << >>
    /\ airlinesMap = EmptyObject
    /\ allFlights = << >>
    /\ cargoFlights = << >>
    /\ statusArg = <<Null, NullTime>>
    /\ desc = EmptyString

Init == PageInit /\ PureIdle /\ phase = "page"

\* the catch block ends the invocation: one error row replaces the body
Fail(i, message) ==
    /\ tableBody' = showError(tableBody, message)
    /\ pc' = [pc EXCEPT ![i] = "Failed"]
    /\ out' = [out EXCEPT ![i] = << ErrorRow(message) >>]
    /\ writes' = [writes EXCEPT ![i] = @ + 1]
    /\ lastDone' = i

\* window load or a click on refreshBtn: loadFlights runs to its first await
Trigger(i) ==
    /\ pc[i] = "Idle"
    /\ IF i = 1 THEN TRUE ELSE pc[i - 1] # "Idle"
    /\ tableBody' = showLoading(tableBody)
    /\ pc' = [pc EXCEPT ![i] = "AwaitFetch"]
    /\ UNCHANGED <<flightRes, airlinesRes, flightsXml, airlinesXml, out, writes,
                   lastDone, pureVars>>

\* after a fetch resolved: Promise.all resolves once both have
AfterResolve(i, other) ==
    /\ pc' = [pc EXCEPT ![i] = IF other = "pending" THEN "AwaitFetch"
                                ELSE "AwaitFlightText"]
    /\ UNCHANGED <<tableBody, flightsXml, airlinesXml, out, writes, lastDone>>

\* the flight fetch resolves with a response, successful or not
FlightFetchResolves(i) ==
    /\ pc[i] = "AwaitFetch"
    /\ flightRes[i] = "pending"
    /\ \E r \in {"ok", "notok"} : flightRes' = [flightRes EXCEPT ![i] = r]
    /\ AfterResolve(i, airlinesRes[i])
    /\ UNCHANGED <<airlinesRes, pureVars>>

\* the flight fetch rejects: Promise.all rejects at once, the catch block runs
FlightFetchRejects(i) ==
    /\ pc[i] = "AwaitFetch"
    /\ flightRes[i] = "pending"
    /\ flightRes' = [flightRes EXCEPT ![i] = "rejected"]
    /\ Fail(i, FetchFailedMessage)
    /\ UNCHANGED <<airlinesRes, flightsXml, airlinesXml, pureVars>>

AirlinesFetchResolves(i) ==
    /\ pc[i] = "AwaitFetch"
    /\ airlinesRes[i] = "pending"
    /\ \E r \in {"ok", "notok"} : airlinesRes' = [airlinesRes EXCEPT ![i] = r]
    /\ AfterResolve(i, flightRes[i])
    /\ UNCHANGED <<flightRes, pureVars>>

AirlinesFetchRejects(i) ==
    /\ pc[i] = "AwaitFetch"
    /\ airlinesRes[i] = "pending"
    /\ airlinesRes' = [airlinesRes EXCEPT ![i] = "rejected"]
    /\ Fail(i, FetchFailedMessage)
    /\ UNCHANGED <<flightRes, flightsXml, airlinesXml, pureVars>>

\* flightRes.text() resolves with one of `bodies` (with an error page for a
\* non-success response); airlinesRes.text() is called
ReadFlightText(i, bodies) ==
    /\ pc[i] = "AwaitFlightText"
    /\ \E body \in (IF flightRes[i] = "ok" THEN bodies ELSE {ErrorPage}) :
          flightsXml' = [flightsXml EXCEPT ![i] = body]
    /\ pc' = [pc EXCEPT ![i] = "AwaitAirlinesText"]
    /\ UNCHANGED <<tableBody, flightRes, airlinesRes, airlinesXml, out, writes,
                   lastDone, pureVars>>

\* flightRes.text() rejects (the connection drops while the body is read)
FlightTextFails(i) ==
    /\ pc[i] = "AwaitFlightText"
    /\ Fail(i, BodyFailedMessage)
    /\ UNCHANGED <<flightRes, airlinesRes, flightsXml, airlinesXml, pureVars>>

\* airlinesRes.text() resolves with one of `bodies`: parse both, filter, sort,
\* render; an exception thrown by renderFlights is caught by the catch block
\* in the same step
ReadAirlinesText(i, bodies) ==
    /\ pc[i] = "AwaitAirlinesText"
    /\ \E body \in (IF airlinesRes[i] = "ok" THEN bodies ELSE {ErrorPage}),
          keepsPartial \in BOOLEAN :
          /\ airlinesXml' = [airlinesXml EXCEPT ![i] = body]
          /\ \E t \in transformed[flightsXml[i], body, keepsPartial] :
                IF renderThrows(t.cargoFlights)
                THEN Fail(i, RangeErrorMessage)
                ELSE /\ tableBody' = renderFlights(tableBody, t.cargoFlights, t.airlinesMap)
                     /\ pc' = [pc EXCEPT ![i] = "Rendered"]
                     /\ out' = [out EXCEPT ![i] =
                                  renderFlights(<< >>, t.cargoFlights, t.airlinesMap)]
                     /\ writes' = [writes EXCEPT ![i] = @ + 1]
                     /\ lastDone' = i
    /\ UNCHANGED <<flightRes, airlinesRes, flightsXml, pureVars>>

AirlinesTextFails(i) ==
    /\ pc[i] = "AwaitAirlinesText"
    /\ Fail(i, BodyFailedMessage)
    /\ UNCHANGED <<flightRes, airlinesRes, flightsXml, airlinesXml, pureVars>>

FlightTextArrives(i) == ReadFlightText(i, SomeFlightBodies)
AirlinesTextArrives(i) == ReadAirlinesText(i, SomeAirlineBodies)

Next ==
    \E i \in Invocations :
        \/ Trigger(i)
        \/ FlightFetchResolves(i)
        \/ FlightFetchRejects(i)
        \/ AirlinesFetchResolves(i)
        \/ AirlinesFetchRejects(i)
        \/ FlightTextArrives(i)
        \/ FlightTextFails(i)
        \/ AirlinesTextArrives(i)
        \/ AirlinesTextFails(i)

Spec == Init /\ [][Next]_vars

\* a request of invocation i settles
Settle(i) ==
    \/ FlightFetchResolves(i) \/ FlightFetchRejects(i)
    \/ AirlinesFetchResolves(i) \/ AirlinesFetchRejects(i)
    \/ FlightTextArrives(i) \/ FlightTextFails(i)
    \/ AirlinesTextArrives(i) \/ AirlinesTextFails(i)

\* no request stays outstanding forever: while an invocation waits, one of
\* the requests it waits for eventually settles
Fairness == \A i \in Invocations : WF_vars(Settle(i))

FairSpec == Init /\ [][Next]_vars /\ Fairness

\* one load (the window load), tried on every sample document
LoadFlightTextArrives == ReadFlightText(1, FlightBodies)
LoadAirlinesTextArrives == ReadAirlinesText(1, AirlineBodies)

LoadNext ==
    \/ Trigger(1)
    \/ FlightFetchResolves(1)
    \/ FlightFetchRejects(1)
    \/ AirlinesFetchResolves(1)
    \/ AirlinesFetchRejects(1)
    \/ LoadFlightTextArrives
    \/ FlightTextFails(1)
    \/ LoadAirlinesTextArrives
    \/ AirlinesTextFails(1)

LoadSpec == Init /\ [][LoadNext]_vars

----------------------------------------------------------------------------
(* The transformation on enumerated documents, and the status formatter *)

DocsInit ==
    /\ phase = "docs"
    /\ \E elems \in SeqsUpTo(FlightElems, MaxFlights) : feedDoc = Numbered(elems)
    /\ namesDoc \in SeqsUpTo(NameElems, MaxNames)
    /\ airlinesMap = EmptyObject
    /\ allFlights = << >>
    /\ cargoFlights = << >>
    /\ statusArg = <<Null, NullTime>>
    /\ desc = EmptyString

StatusInit ==
    /\ phase = "status"
    /\ statusArg \in StatusCodes \X StatusTimes
    /\ feedDoc = << >>
    /\ namesDoc = << >>
    /\ airlinesMap = EmptyObject
    /\ allFlights = << >>
    /\ cargoFlights = << >>
    /\ desc = EmptyString

PureInit == PageInit /\ (DocsInit \/ StatusInit)

\* parse both documents, filter, sort (lines 177-180 of loadFlights)
Transform ==
    /\ phase = "docs"
    /\ phase' = "done"
    /\ airlinesMap' = parseAirlineNames(namesDoc)
    /\ allFlights' = parseFlights(feedDoc)
    /\ \E filtered \in { filterCargo(allFlights', airlinesMap') } :
          cargoFlights' \in sortOutcomes(filtered)
    /\ UNCHANGED <<feedDoc, namesDoc, statusArg, desc, pageVars>>

Describe ==
    /\ phase = "status"
    /\ phase' = "described"
    /\ desc' = getStatusDescription(statusArg[1], statusArg[2])
    /\ UNCHANGED <<feedDoc, namesDoc, airlinesMap, allFlights, cargoFlights,
                   statusArg, pageVars>>

PureNext == Transform \/ Describe

PureSpec == PureInit /\ [][PureNext]_vars

----------------------------------------------------------------------------
(* Vocabulary of the properties *)

Loading == {"AwaitFetch", "AwaitFlightText", "AwaitAirlinesText"}

IsErrorRow(row) ==
    /\ Len(row) = 1
    /\ row[1].colSpan = 6
    /\ Len(row[1].text) >= 2
    /\ row[1].text[1] = "Error fetching flight data: "

IsFlightRow(row) == Len(row) = 6 /\ \A c \in DOMAIN row : row[c].colSpan = 1

OnlyErrorRow(rows) == Len(rows) = 1 /\ IsErrorRow(rows[1])

\* a retrieval request of invocation i failed
FetchRejected(i) == flightRes[i] = "rejected" \/ airlinesRes[i] = "rejected"
NonSuccessResponse(i) == flightRes[i] = "notok" \/ airlinesRes[i] = "notok"

\* both responses of invocation i were successful and both bodies were read
BothRead(i) ==
    /\ flightRes[i] = "ok" /\ airlinesRes[i] = "ok"
    /\ flightsXml[i].read /\ airlinesXml[i].read

BothWellFormed(i) == flightsXml[i].wellFormed /\ airlinesXml[i].wellFormed

\* the flights and the directory of the well-formed documents of invocation i
FlightsOf(i) == parseFlights(flightsXml[i].elems)
DirectoryOf(i) == parseAirlineNames(airlinesXml[i].elems)
CargoIndices(i) ==
    { k \in DOMAIN FlightsOf(i) : isCargoFlight(FlightsOf(i)[k], DirectoryOf(i)) }

----------------------------------------------------------------------------
(* C1: whenever one of the two retrieval requests of an invocation fails, by *)
(* a rejected fetch or by a non-success HTTP response, the invocation ends   *)
(* in Failed and wrote exactly one error row.                                *)
C1_RetrievalFailureEndsFailed ==
    \A i \in Invocations :
        pc[i] \in Terminal /\ (FetchRejected(i) \/ NonSuccessResponse(i))
            => pc[i] = "Failed" /\ OnlyErrorRow(out[i])

(* C2: whenever a successfully fetched payload is not parseable as the       *)
(* expected structure the invocation ends in Failed with one error row, and  *)
(* well-formed payloads whose elements merely lack optional sub-fields never *)
(* end in Failed.                                                            *)
C2_MalformedFeedEndsFailed ==
    \A i \in Invocations :
        pc[i] \in Terminal /\ BothRead(i) =>
            /\ ~BothWellFormed(i) => pc[i] = "Failed" /\ OnlyErrorRow(out[i])
            /\ (BothWellFormed(i)
                  /\ \A k \in DOMAIN flightsXml[i].elems :
                        /\ flightsXml[i].elems[k].schedule_time.kind # "junk"
                        /\ flightsXml[i].elems[k].status.time.kind # "junk")
                  => pc[i] = "Rendered"

(* C3: invocations do not interfere: a step of one invocation changes no     *)
(* other invocation's position or result, every completion replaces the      *)
(* whole view by the completing invocation's own result, and so once all     *)
(* triggered invocations have completed the view shows the result of the     *)
(* one that completed last, whichever was triggered first.                   *)
C3_LastToFinishWins ==
    /\ [][\A i \in Invocations :
            pc'[i] # pc[i] =>
                /\ \A j \in Invocations \ {i} : pc'[j] = pc[j] /\ out'[j] = out[j]
                /\ pc'[i] \in Terminal => tableBody' = out'[i] /\ lastDone' = i]_vars
    /\ []((lastDone # 0 /\ \A i \in Invocations : pc[i] \in Terminal \cup {"Idle"})
            => tableBody = out[lastDone])

C3_Witness ==
    /\ MaxInv >= 2
    /\ pc[1] \in Terminal /\ pc[2] \in Terminal
    /\ lastDone = 1
    /\ out[1] # out[2]
    /\ tableBody = out[1]

(* C4: each invocation follows Idle -> Loading -> {Rendered | Failed}: it    *)
(* enters Loading by showing the loading row, replaces the view at most once *)
(* afterwards, never leaves a terminal state, surfaces a failure as exactly  *)
(* one error row, and, its requests settling, always reaches a terminal      *)
(* state.                                                                    *)
C4_Lifecycle ==
    /\ [][\A i \in Invocations :
            /\ pc[i] = "Idle" => pc'[i] \in {"Idle", "AwaitFetch"}
            /\ pc[i] = "Idle" /\ pc'[i] # "Idle" => tableBody' = << LoadingRow >>
            /\ pc[i] \in Loading => pc'[i] \in Loading \cup Terminal
            /\ pc[i] \in Loading /\ pc'[i] \in Loading =>
                  writes'[i] = 0 /\ (tableBody' # tableBody => \E j \in Invocations : pc'[j] # pc[j] /\ j # i)
            /\ pc[i] \in Loading /\ pc'[i] \in Terminal => writes'[i] = 1
            /\ pc[i] \in Loading /\ pc'[i] = "Failed" => OnlyErrorRow(tableBody')
            /\ pc[i] \in Loading /\ pc'[i] = "Rendered" =>
                  \A r \in DOMAIN tableBody' : ~IsErrorRow(tableBody'[r])
            /\ pc[i] \in Terminal =>
                  pc'[i] = pc[i] /\ out'[i] = out[i] /\ writes'[i] = writes[i]]_vars
    /\ \A i \in Invocations : (pc[i] \in Loading) ~> (pc[i] \in Terminal)

C4_Witness ==
    /\ pc[1] = "Failed" /\ writes[1] = 1 /\ flightsXml[1].read
    /\ MaxInv >= 2 /\ pc[2] = "Rendered" /\ writes[2] = 1

(* C9: whenever both retrievals succeed, both documents are well-formed and  *)
(* no parsed flight is a cargo flight, the invocation ends in Rendered with  *)
(* exactly one placeholder row.                                              *)
C9_EmptyResultPlaceholder ==
    \A i \in Invocations :
        pc[i] \in Terminal /\ BothRead(i) /\ BothWellFormed(i) /\ CargoIndices(i) = {}
            => pc[i] = "Rendered" /\ out[i] = << PlaceholderRow >>

C9_Witness ==
    \E i \in Invocations :
        /\ pc[i] \in Terminal /\ BothRead(i) /\ BothWellFormed(i)
        /\ CargoIndices(i) = {}
        /\ Len(FlightsOf(i)) > 0
        /\ tableBody = << PlaceholderRow >>

(* C10: after the first trigger the table body is never empty and is exactly *)
(* a single loading row, or the rows one completed invocation wrote: a       *)
(* single placeholder row, a single error row, or one flight row per cargo   *)
(* flight of that invocation.                                                *)
C10_ViewIsOneResult ==
    (\E i \in Invocations : pc[i] # "Idle") =>
        /\ tableBody # << >>
        /\ \/ tableBody = << LoadingRow >>
           \/ \E i \in Invocations :
                /\ pc[i] \in Terminal
                /\ tableBody = out[i]
                /\ \/ tableBody = << PlaceholderRow >>
                   \/ pc[i] = "Failed" /\ OnlyErrorRow(tableBody)
                   \/ /\ pc[i] = "Rendered"
                      /\ \A r \in DOMAIN tableBody : IsFlightRow(tableBody[r])
                      /\ BothRead(i) /\ BothWellFormed(i)
                            => Len(tableBody) = Cardinality(CargoIndices(i))

C10_Witness ==
    /\ MaxInv >= 2
    /\ pc[1] = "Rendered" /\ pc[2] = "Failed"
    /\ lastDone = 1
    /\ Len(tableBody) >= 2
    /\ \A r \in DOMAIN tableBody : IsFlightRow(tableBody[r])

----------------------------------------------------------------------------
(* Properties of the transformation *)

CargoCodeSet == { CARGO_CODES[k] : k \in DOMAIN CARGO_CODES }
CargoKeywordSet == { CARGO_KEYWORDS[k] : k \in DOMAIN CARGO_KEYWORDS }

\* kw occurs in s at some offset
OccursIn(kw, s) ==
    \E p \in 0..Len(s) :
        /\ p + Len(kw) <= Len(s)
        /\ \A c \in 1..Len(kw) : s[p + c] = kw[c]

\* the directory name of a carrier code, the empty string without an entry
ResolvedName(code, dir) == IF code \in DOMAIN dir THEN dir[code] ELSE EmptyString

ExpectedCargo(flight, dir) ==
    \/ flight.airline \in CargoCodeSet
    \/ \E name \in { toLowerCase(ResolvedName(flight.airline, dir)) } :
          \E kw \in CargoKeywordSet : OccursIn(kw, name)

Kept(flight) == \E j \in DOMAIN cargoFlights : cargoFlights[j] = flight

(* C5: a parsed flight is classified as cargo, and so kept by the filter,    *)
(* exactly when its carrier code is in the cargo-code set or the lowercased  *)
(* directory name of its code (empty without an entry) contains a cargo      *)
(* keyword.                                                                  *)
C5_CargoClassification ==
    phase = "done" =>
        \A k \in DOMAIN allFlights :
            \A expected \in { ExpectedCargo(allFlights[k], airlinesMap) } :
                /\ isCargoFlight(allFlights[k], airlinesMap) = expected
                /\ Kept(allFlights[k]) = expected
                /\ allFlights[k].airline \in CargoCodeSet => Kept(allFlights[k])

C5_Witness ==
    /\ phase = "done"
    /\ \E k \in DOMAIN allFlights :
          /\ allFlights[k].airline = <<"D", "Y">>
          /\ Lookup(airlinesMap, allFlights[k].airline) = DhlAir
          /\ Kept(allFlights[k])
    /\ \E k \in DOMAIN allFlights :
          allFlights[k].airline = <<"Q", "R">> /\ Kept(allFlights[k])
    /\ \E k \in DOMAIN allFlights :
          allFlights[k].airline = EmptyString /\ ~Kept(allFlights[k])

AllParseable == \A k \in DOMAIN allFlights : ~IsNaN(allFlights[k].scheduleTime)

FeedIndex(flight) == CHOOSE k \in DOMAIN allFlights : allFlights[k] = flight

(* C6: when every scheduleTime is parseable, the list handed on is a         *)
(* permutation of exactly the cargo flights, ascending by instant, flights   *)
(* of equal instant in feed order.                                           *)
C6_FilteredStableSort ==
    phase = "done" /\ AllParseable =>
        \A cargo \in { { k \in DOMAIN allFlights :
                            isCargoFlight(allFlights[k], airlinesMap) } } :
            /\ \A j \in DOMAIN cargoFlights :
                  \E k \in cargo : allFlights[k] = cargoFlights[j]
            /\ \A k \in cargo : Kept(allFlights[k])
            /\ Len(cargoFlights) = Cardinality(cargo)
            /\ \A i, j \in DOMAIN cargoFlights :
                  i < j =>
                     LET a == DateValue(cargoFlights[i].scheduleTime)
                         b == DateValue(cargoFlights[j].scheduleTime)
                     IN /\ a <= b
                        /\ a = b =>
                              FeedIndex(cargoFlights[i]) < FeedIndex(cargoFlights[j])

C6_Witness ==
    /\ phase = "done" /\ AllParseable
    /\ Len(allFlights) = 3
    /\ Len(cargoFlights) = 3
    /\ cargoFlights[1] = allFlights[2]
    /\ cargoFlights[2] = allFlights[3]
    /\ cargoFlights[3] = allFlights[1]
    /\ cargoFlights[1].scheduleTime # cargoFlights[2].scheduleTime
    /\ DateValue(cargoFlights[1].scheduleTime) = DateValue(cargoFlights[2].scheduleTime)

\* the records with a non-empty code and a non-empty name, each with its
\* uppercased code
ValidKeys ==
    [j \in { l \in DOMAIN namesDoc :
                Truthy(namesDoc[l].code) /\ Truthy(namesDoc[l].name) }
       |-> toUpperCase(namesDoc[j].code)]

(* C7: the directory maps uppercase(code) to name for exactly the records    *)
(* with a non-empty code and a non-empty name, the last record of a code     *)
(* winning, and the lookup for a parsed flight finds the entry of its        *)
(* carrier whatever the letter case of the code in the source.               *)
C7_DirectoryParse ==
    phase = "done" =>
        \A keyOf \in { ValidKeys } :
            /\ DOMAIN airlinesMap = { keyOf[j] : j \in DOMAIN keyOf }
            /\ \A j \in DOMAIN keyOf :
                  (\A l \in DOMAIN keyOf : keyOf[l] = keyOf[j] => l <= j)
                     => /\ Lookup(airlinesMap, keyOf[j]) = namesDoc[j].name
                        /\ \A k \in DOMAIN allFlights :
                              allFlights[k].airline = keyOf[j]
                                 => Lookup(airlinesMap, allFlights[k].airline)
                                       = namesDoc[j].name
            /\ namesDoc = << >> => airlinesMap = EmptyObject

C7_Witness ==
    /\ phase = "done"
    /\ namesDoc = << NameElem(<<"D", "Y">>, Norwegian), NameElem(<<"d", "y">>, DhlAir) >>
    /\ Lookup(airlinesMap, <<"D", "Y">>) = DhlAir
    /\ \E k \in DOMAIN allFlights : allFlights[k].airline = <<"D", "Y">>

FixedPhrase(code) ==
    CASE code = <<"A">> -> <<"Arrived">>
      [] code = <<"C">> -> <<"Cancelled">>
      [] code = <<"D">> -> <<"Departed">>
      [] code = <<"N">> -> <<"New info">>
      [] OTHER -> code

NewTimeText(time) ==
    IF formatLocalTime(time) = RangeError THEN RangeError
    ELSE <<"New time ">> \o formatLocalTime(time)

====
